---- MODULE Spec2Model ----
(***************************************************************************)
(* ValutaTrade Hub: the command handlers of valutatrade_hub/cli/interface.py *)
(* and the currency registry of valutatrade_hub/core/currencies.py.         *)
(*                                                                         *)
(* Numbers.  Python floats are modelled as exact rationals <<n, d>> in      *)
(* lowest terms with d > 0; balances and amounts are whole units.  Strings  *)
(* typed by the user are sequences of one-character strings, so that        *)
(* upper() and strip() are computed; codes and dictionary keys are strings. *)
(***************************************************************************)
EXTENDS Integers, Sequences, FiniteSets, TLC

VARIABLES
    currency_registry,  \* currencies.py: _currency_registry (code -> Currency)
    users,              \* data/users.json: list of user dicts
    portfolios,         \* data/portfolios.json: list of portfolio dicts
    rates,              \* data/rates.json: [exists, data]
    current_user,       \* CLIState.current_user: <<>> for None, or <<user>>
    out                 \* what the last command printed

vars == <<currency_registry, users, portfolios, rates, current_user, out>>

-----------------------------------------------------------------------------
(* Bounds of the model *)

\* most pair entries in a rates.json drawn for the rate queries
MaxEntries == 4
\* most pair entries in a rates.json drawn for the valuations
MaxValEntries == 2
\* most wallets and the largest balance of a portfolio drawn for the valuations
MaxWallets == 3
MaxValBalance == 1
\* largest sum of the balances held in a session, largest amount typed
MaxHeld == 2
MaxAmount == 2

-----------------------------------------------------------------------------
(* Exact rational arithmetic standing for float arithmetic *)

Abs(i) == IF i < 0 THEN -i ELSE i

RECURSIVE GCD(_, _)
GCD(a, b) == IF b = 0 THEN a ELSE GCD(b, a % b)

\* n/d in lowest terms, d > 0
Frac(n, d) ==
    LET g == GCD(Abs(n), Abs(d))
        s == IF d < 0 THEN -1 ELSE 1
    IN  <<(s * n) \div g, (s * d) \div g>>

RInt(i) == <<i, 1>>
RZero == RInt(0)
RMul(x, y) == Frac(x[1] * y[1], x[2] * y[2])
RAdd(x, y) == Frac(x[1] * y[2] + y[1] * x[2], x[2] * y[2])
\* 1 / x, for x # 0
RInv(x) == Frac(x[2], x[1])
RPos(x) == x[1] > 0

-----------------------------------------------------------------------------
(* Strings typed by the user *)

None == "None"

UpperChar(c) ==
    CASE c = "a" -> "A" [] c = "b" -> "B" [] c = "c" -> "C" [] c = "d" -> "D"
      [] c = "e" -> "E" [] c = "f" -> "F" [] c = "g" -> "G" [] c = "h" -> "H"
      [] c = "i" -> "I" [] c = "j" -> "J" [] c = "k" -> "K" [] c = "l" -> "L"
      [] c = "m" -> "M" [] c = "n" -> "N" [] c = "o" -> "O" [] c = "p" -> "P"
      [] c = "q" -> "Q" [] c = "r" -> "R" [] c = "s" -> "S" [] c = "t" -> "T"
      [] c = "u" -> "U" [] c = "v" -> "V" [] c = "w" -> "W" [] c = "x" -> "X"
      [] c = "y" -> "Y" [] c = "z" -> "Z"
      [] OTHER -> c

\* str.upper()
Upper(s) == [i \in 1..Len(s) |-> UpperChar(s[i])]

\* the whitespace str.strip() removes
IsSpace(c) == c \in {" ", "\t", "\n"}

\* str.strip()
RECURSIVE LStrip(_)
LStrip(s) == IF s # <<>> /\ IsSpace(Head(s)) THEN LStrip(Tail(s)) ELSE s
RECURSIVE RStrip(_)
RStrip(s) ==
    IF s # <<>> /\ IsSpace(s[Len(s)]) THEN RStrip(SubSeq(s, 1, Len(s) - 1)) ELSE s
Strip(s) == RStrip(LStrip(s))

\* the string a character sequence spells
RECURSIVE Str(_)
Str(s) == IF s = <<>> THEN "" ELSE Head(s) \o Str(Tail(s))

\* the code uppercased but not stripped
NormalizeCode_unstripped(raw) == Str(Upper(raw))

\* code.upper().strip()
NormalizeCode(raw) == Str(Strip(Upper(raw)))

-----------------------------------------------------------------------------
(* currencies.py: the registry *)

FiatCurrency(name, code, issuing_country) ==
    [kind |-> "fiat", name |-> name, code |-> code, detail |-> issuing_country]

CryptoCurrency(name, code, algorithm) ==
    [kind |-> "crypto", name |-> name, code |-> code, detail |-> algorithm]

fiats == <<
    FiatCurrency("US Dollar", "USD", "United States"),
    FiatCurrency("Euro", "EUR", "Eurozone"),
    FiatCurrency("Russian Ruble", "RUB", "Russia"),
    FiatCurrency("British Pound", "GBP", "United Kingdom"),
    FiatCurrency("Japanese Yen", "JPY", "Japan") >>

cryptos == <<
    CryptoCurrency("Bitcoin", "BTC", "SHA-256"),
    CryptoCurrency("Ethereum", "ETH", "Ethash"),
    CryptoCurrency("Litecoin", "LTC", "Scrypt"),
    CryptoCurrency("Cardano", "ADA", "Ouroboros") >>

\* _initialize_currencies(): registry[currency.code] = currency for each
initialize_currencies(registry) ==
    LET all == fiats \o cryptos
        codes == {all[i].code : i \in 1..Len(all)}
        added == [c \in codes |-> all[CHOOSE i \in 1..Len(all) : all[i].code = c]]
    IN  added @@ registry

\* the registry after a lazy initialization (if not _currency_registry: ...)
ensure_registry(registry) ==
    IF DOMAIN registry = {} THEN initialize_currencies(registry) ELSE registry

\* get_currency(code): [found, code, registry]
get_currency(registry, raw) ==
    LET code == NormalizeCode(raw)
        reg == ensure_registry(registry)
    IN  [found |-> code \in DOMAIN reg, code |-> code, registry |-> reg]

\* get_all_currencies(): [listing, registry]; the listing is a copy
get_all_currencies(registry) ==
    LET reg == ensure_registry(registry)
    IN  [listing |-> [c \in DOMAIN reg |-> reg[c]], registry |-> reg]

\* the number of values of the registry that are of the kind
RECURSIVE count_kind(_, _, _)
count_kind(reg, codes, kind) ==
    IF codes = {} THEN 0
    ELSE LET c == CHOOSE x \in codes : TRUE
         IN  (IF reg[c].kind = kind THEN 1 ELSE 0) + count_kind(reg, codes \ {c}, kind)

\* get_currency_types_count(): [counts, registry]
get_currency_types_count(registry) ==
    LET reg == ensure_registry(registry)
    IN  [counts |-> [fiat |-> count_kind(reg, DOMAIN reg, "fiat"),
                     crypto |-> count_kind(reg, DOMAIN reg, "crypto")],
         registry |-> reg]

-----------------------------------------------------------------------------
(* rates.json *)

MetaKeys == {"source", "last_refresh"}

Key(from, to) == from \o "_" \o to

\* load_rates(): the file's dictionary, or ApiRequestError
load_rates(file) == [ok |-> file.exists, data |-> file.data]

\* [k for k in rates.keys() if k not in ['source', 'last_refresh']]
known_pairs(data) == {k \in DOMAIN data : k \notin MetaKeys}

\* rates[key]['rate']
rate_of(data, key) == data[key].rate

-----------------------------------------------------------------------------
(* interface.py: get_rate_command *)

NoOutput == [cmd |-> None, from |-> "", to |-> "", status |-> None,
             rate |-> <<>>, provenance |-> None, reverse |-> <<>>, known |-> {}]

RateOutput(from, to, status) ==
    [NoOutput EXCEPT !.cmd = "get-rate", !.from = from, !.to = to, !.status = status]

\* lines 490-501: the direct course and, when it is not 0, its inverse
direct_quote(data, from, to) ==
    LET rate == rate_of(data, Key(from, to))
    IN  [RateOutput(from, to, "resolved") EXCEPT
            !.rate = <<rate>>,
            !.provenance = "direct",
            !.reverse = IF rate # RZero THEN <<RInv(rate)>> ELSE <<>>]

\* lines 505-514: the reverse key is present; nothing is printed for a rate of 0
reverse_quote(data, from, to) ==
    LET reverse_rate == rate_of(data, Key(to, from))
    IN  IF reverse_rate # RZero
        THEN [RateOutput(from, to, "resolved") EXCEPT
                !.rate = <<RInv(reverse_rate)>>,
                !.provenance = "inverted-reverse",
                !.reverse = <<reverse_rate>>]
        ELSE RateOutput(from, to, "silent")

\* line 517, 521, 525: the guard of the course through USD
bridge_applies(data, from, to) ==
    /\ from # "USD" /\ to # "USD"
    /\ Key("USD", to) \in DOMAIN data /\ Key(from, "USD") \in DOMAIN data
    /\ rate_of(data, Key("USD", to)) # RZero
    /\ rate_of(data, Key(from, "USD")) # RZero

\* bridge_quote dividing by the course USD_TO where it should multiply
bridge_quote_divides(data, from, to) ==
    LET usd_to_target == rate_of(data, Key("USD", to))
        source_to_usd == rate_of(data, Key(from, "USD"))
        calculated_rate == RMul(source_to_usd, RInv(usd_to_target))
    IN  [RateOutput(from, to, "resolved") EXCEPT
            !.rate = <<calculated_rate>>,
            !.provenance = "bridged",
            !.reverse = IF calculated_rate # RZero
                        THEN <<RInv(calculated_rate)>> ELSE <<RZero>>]

\* lines 522-532
bridge_quote(data, from, to) ==
    LET usd_to_target == rate_of(data, Key("USD", to))
        source_to_usd == rate_of(data, Key(from, "USD"))
        calculated_rate == RMul(source_to_usd, usd_to_target)
    IN  [RateOutput(from, to, "resolved") EXCEPT
            !.rate = <<calculated_rate>>,
            !.provenance = "bridged",
            !.reverse = IF calculated_rate # RZero
                        THEN <<RInv(calculated_rate)>> ELSE <<RZero>>]

\* lines 534-535
unavailable(data, from, to) ==
    [RateOutput(from, to, "RateUnavailable") EXCEPT !.known = known_pairs(data)]

\* resolve_rate looking for the reverse key before the direct one
resolve_rate_reverse_first(data, from, to) ==
    IF Key(to, from) \in DOMAIN data /\ Key(to, from) \notin MetaKeys
    THEN reverse_quote(data, from, to)
    ELSE IF Key(from, to) \in DOMAIN data /\ Key(from, to) \notin MetaKeys
    THEN direct_quote(data, from, to)
    ELSE IF bridge_applies(data, from, to)
    THEN bridge_quote(data, from, to)
    ELSE unavailable(data, from, to)

\* resolve_rate trying the course through USD before the reverse key
resolve_rate_bridge_first(data, from, to) ==
    IF Key(from, to) \in DOMAIN data /\ Key(from, to) \notin MetaKeys
    THEN direct_quote(data, from, to)
    ELSE IF bridge_applies(data, from, to)
    THEN bridge_quote(data, from, to)
    ELSE IF Key(to, from) \in DOMAIN data /\ Key(to, from) \notin MetaKeys
    THEN reverse_quote(data, from, to)
    ELSE unavailable(data, from, to)

\* lines 488-535: direct, then reverse, then through USD, then unavailable
resolve_rate(data, from, to) ==
    IF Key(from, to) \in DOMAIN data /\ Key(from, to) \notin MetaKeys
    THEN direct_quote(data, from, to)
    ELSE IF Key(to, from) \in DOMAIN data /\ Key(to, from) \notin MetaKeys
    THEN reverse_quote(data, from, to)
    ELSE IF bridge_applies(data, from, to)
    THEN bridge_quote(data, from, to)
    ELSE unavailable(data, from, to)

\* get_rate_command(args, state): what it prints
get_rate_command(registry, file, rawFrom, rawTo) ==
    IF rawFrom = <<>> \/ rawTo = <<>>
    THEN RateOutput("", "", "usage")
    ELSE
    LET f == get_currency(registry, rawFrom)
        t == get_currency(f.registry, rawTo)
        loaded == load_rates(file)
    IN  IF ~f.found THEN RateOutput(f.code, "", "CurrencyNotFound")
        ELSE IF ~t.found THEN RateOutput(f.code, t.code, "CurrencyNotFound")
        ELSE IF ~loaded.ok THEN RateOutput(f.code, t.code, "RatesUnavailable")
        ELSE resolve_rate(loaded.data, f.code, t.code)

\* the registry after get_rate_command
get_rate_registry(registry, rawFrom, rawTo) ==
    IF rawFrom = <<>> \/ rawTo = <<>> THEN registry ELSE ensure_registry(registry)

-----------------------------------------------------------------------------
(* The inputs the checks draw from *)

\* what the user may type for a currency code
RawCodes == { <<"U", "S", "D">>, <<"e", "u", "r">>, <<" ", "R", "U", "B", " ">>,
              <<"X", "Y", "Z">>, <<>> }

RateCodes == {"USD", "EUR", "RUB"}
PairKeys == {Key(a, b) : a \in RateCodes, b \in RateCodes} \ {Key(a, a) : a \in RateCodes}
RateValues == {RZero, <<1, 2>>, <<3, 1>>}
RateEntries == {[rate |-> r, updated_at |-> "2025-10-09T10:30:00"] : r \in RateValues}
MetaEntries == [k \in MetaKeys |-> IF k = "source" THEN "ParserService"
                                               ELSE "2025-10-09T10:35:00"]

\* the dictionaries of at most n pair entries over the keys ks
RateTables(ks, n) ==
    UNION {[S -> RateEntries] : S \in {T \in SUBSET ks : Cardinality(T) <= n}}

MissingFile == [exists |-> FALSE, data |-> <<>>]
RateFile(data) == [exists |-> TRUE, data |-> data]

RateFiles ==
    {MissingFile}
    \cup {RateFile(t) : t \in RateTables(PairKeys, MaxEntries)}
    \cup {RateFile(t @@ MetaEntries) : t \in RateTables(PairKeys, MaxEntries)}

-----------------------------------------------------------------------------
(* The rate queries: any rates.json of the family, any sequence of get-rate *)

NoUsers == <<>>
NoPortfolios == <<>>

InitRate ==
    /\ currency_registry = initialize_currencies(<<>>)
    /\ users = NoUsers
    /\ portfolios = NoPortfolios
    /\ rates \in RateFiles
    /\ current_user = <<>>
    /\ out = NoOutput

GetRate ==
    \E rawFrom \in RawCodes, rawTo \in RawCodes :
        /\ out' = get_rate_command(currency_registry, rates, rawFrom, rawTo)
        /\ currency_registry' = get_rate_registry(currency_registry, rawFrom, rawTo)
        /\ UNCHANGED <<users, portfolios, rates, current_user>>

NextRate == GetRate

SpecRate == InitRate /\ [][NextRate]_vars

\* a * b = r and x * r = 1, stated by cross-multiplication
IsProduct(r, a, b) == r[1] * a[2] * b[2] = r[2] * a[1] * b[1]
IsInverse(x, r) == x[1] * r[1] = x[2] * r[2] /\ r # RZero

\* the last command was a rate query of two catalog currencies on a loaded table
Queried ==
    /\ out.cmd = "get-rate"
    /\ rates.exists
    /\ out.from \in DOMAIN currency_registry
    /\ out.to \in DOMAIN currency_registry

HasPair(from, to) == Key(from, to) \in known_pairs(rates.data)
PairRate(from, to) == rates.data[Key(from, to)].rate
HasBridge(from, to) ==
    /\ from # "USD" /\ to # "USD"
    /\ HasPair(from, "USD") /\ HasPair("USD", to)
    /\ PairRate(from, "USD") # RZero /\ PairRate("USD", to) # RZero

\* C1: when the key FROM_TO is present the query answers that entry's rate as
\* "direct", whatever else the table holds, and quotes the reverse 1/rate
\* exactly when the rate is not 0.
C1_Direct ==
    (Queried /\ HasPair(out.from, out.to)) =>
        /\ out.status = "resolved"
        /\ out.provenance = "direct"
        /\ out.rate = <<PairRate(out.from, out.to)>>
        /\ (out.reverse # <<>>) <=> (PairRate(out.from, out.to) # RZero)
        /\ out.reverse # <<>> => IsInverse(out.reverse[1], PairRate(out.from, out.to))

C1_Witness ==
    /\ Queried /\ HasPair(out.from, out.to) /\ out.from # out.to
    /\ HasPair(out.to, out.from) /\ HasBridge(out.from, out.to)
    /\ out.provenance = "direct" /\ out.reverse # <<>>

\* C2: when FROM_TO is absent and TO_FROM is present with a rate other than 0
\* the query answers 1/rate(TO_FROM) as "inverted-reverse", also when a USD
\* bridge is available.
C2_Reverse ==
    (/\ Queried /\ ~HasPair(out.from, out.to)
     /\ HasPair(out.to, out.from) /\ PairRate(out.to, out.from) # RZero) =>
        /\ out.status = "resolved"
        /\ out.provenance = "inverted-reverse"
        /\ Len(out.rate) = 1
        /\ IsInverse(out.rate[1], PairRate(out.to, out.from))

C2_Witness ==
    /\ Queried /\ ~HasPair(out.from, out.to)
    /\ HasPair(out.to, out.from) /\ HasBridge(out.from, out.to)
    /\ out.provenance = "inverted-reverse"

\* C3: with neither currency USD, neither FROM_TO nor TO_FROM present and both
\* FROM_USD and USD_TO present with rates other than 0, the query answers
\* rate(FROM_USD) * rate(USD_TO) as "bridged" and quotes the inverse of the
\* product as the reverse.
C3_Bridge ==
    (/\ Queried /\ ~HasPair(out.from, out.to) /\ ~HasPair(out.to, out.from)
     /\ HasBridge(out.from, out.to)) =>
        /\ out.status = "resolved"
        /\ out.provenance = "bridged"
        /\ Len(out.rate) = 1 /\ Len(out.reverse) = 1
        /\ IsProduct(out.rate[1], PairRate(out.from, "USD"), PairRate("USD", out.to))
        /\ IsInverse(out.reverse[1], out.rate[1])

C3_Witness ==
    /\ Queried /\ HasBridge(out.from, out.to)
    /\ out.provenance = "bridged"
    /\ out.rate[1] \notin {PairRate(out.from, "USD"), PairRate("USD", out.to)}

\* no step of the resolution order matches the queried pair
NoStepMatches ==
    /\ ~HasPair(out.from, out.to)
    /\ ~(HasPair(out.to, out.from) /\ PairRate(out.to, out.from) # RZero)
    /\ ~HasBridge(out.from, out.to)

\* C4: when none of the direct, reverse and bridge steps matches, the query
\* signals RateUnavailable and lists exactly the pair keys of the table.
C4_Unavailable ==
    (Queried /\ NoStepMatches) =>
        /\ out.status = "RateUnavailable"
        /\ out.known = DOMAIN rates.data \ MetaKeys

\* C5: a rate query of two catalog currencies on a loaded table always ends
\* with one outcome, a resolved rate or RateUnavailable: a reverse entry of
\* rate 0 is passed over and the bridge and unavailable steps follow.
C5_OneOutcome ==
    Queried =>
        /\ out.status \in {"resolved", "RateUnavailable"}
        /\ (/\ ~HasPair(out.from, out.to) /\ HasPair(out.to, out.from)
            /\ PairRate(out.to, out.from) = RZero) =>
               IF HasBridge(out.from, out.to)
               THEN out.provenance = "bridged"
               ELSE out.status = "RateUnavailable"

-----------------------------------------------------------------------------
(* core/models.py as the specification describes it: User, Wallet, Portfolio *)

\* User(user_id, username, password).to_dict() / User.from_dict(data)
User(user_id, username, password) ==
    [user_id |-> user_id, username |-> username, password |-> password]

\* User.verify_password(password): the opaque credential check
verify_password(user, password) == user.password = password

\* Portfolio(user_id).to_dict(): wallets in insertion order
Portfolio(user_id) == [user_id |-> user_id, wallets |-> <<>>]

Wallet(currency_code, balance) == [currency_code |-> currency_code, balance |-> balance]

\* Portfolio.get_wallet(currency): its place among the wallets, 0 for None
get_wallet(portfolio, currency) ==
    LET at == {i \in 1..Len(portfolio.wallets) :
                 portfolio.wallets[i].currency_code = currency}
    IN  IF at = {} THEN 0 ELSE CHOOSE i \in at : \A j \in at : i <= j

\* Portfolio.get_or_create_wallet(currency): the portfolio holding the wallet
get_or_create_wallet(portfolio, currency) ==
    IF get_wallet(portfolio, currency) # 0 THEN portfolio
    ELSE [portfolio EXCEPT !.wallets = Append(@, Wallet(currency, 0))]

\* Wallet.deposit(amount)
deposit(balance, amount) ==
    IF amount <= 0 THEN [error |-> "InvalidAmount", balance |-> balance]
    ELSE [error |-> None, balance |-> balance + amount]

\* Wallet.withdraw(amount)
withdraw(balance, amount) ==
    IF amount <= 0 THEN [error |-> "InvalidAmount", balance |-> balance]
    ELSE IF amount > balance THEN [error |-> "InsufficientFunds", balance |-> balance]
    ELSE [error |-> None, balance |-> balance - amount]

-----------------------------------------------------------------------------
(* interface.py: the helpers over users.json and portfolios.json *)

Max(S) == CHOOSE m \in S : \A x \in S : x <= m

\* get_next_user_id(users)
get_next_user_id(us) ==
    IF us = <<>> THEN 1 ELSE Max({us[i].user_id : i \in 1..Len(us)}) + 1

First(S) == CHOOSE i \in S : \A j \in S : i <= j

\* find_user_by_username(users, username): its place in the list, 0 for None
find_user_by_username(us, username) ==
    LET at == {i \in 1..Len(us) : us[i].username = username}
    IN  IF at = {} THEN 0 ELSE First(at)

\* find_portfolio_by_user_id(portfolios, user_id): its place, 0 for None
find_portfolio_by_user_id(pfs, user_id) ==
    LET at == {i \in 1..Len(pfs) : pfs[i].user_id = user_id}
    IN  IF at = {} THEN 0 ELSE First(at)

\* lines 324-327: exchange_rates[key] = value['rate'] for the pair keys
exchange_rates(data) == [k \in known_pairs(data) |-> data[k].rate]

\* exchange_rates.get(rate_key, 0)
rate_or_zero(xr, rate_key) == IF rate_key \in DOMAIN xr THEN xr[rate_key] ELSE RZero

\* replace_portfolio writing to the head of the list whoever the user is
replace_portfolio_head(pfs, user_id, portfolio) ==
    [pfs EXCEPT ![1] = portfolio]

\* lines 339-343: the first portfolio of the user replaced by the new one
replace_portfolio(pfs, user_id, portfolio) ==
    LET at == {i \in 1..Len(pfs) : pfs[i].user_id = user_id}
    IN  IF at = {} THEN pfs ELSE [pfs EXCEPT ![First(at)] = portfolio]

-----------------------------------------------------------------------------
(* interface.py: register_command, login_command *)

AccountOutput(cmd, status) == [cmd |-> cmd, status |-> status]

\* register_command(args, state): [users, portfolios, out]
register_command(us, pfs, username, password) ==
    LET user_id == get_next_user_id(us)
        same == [users |-> us, portfolios |-> pfs]
    IN  IF username = "" \/ password = <<>>
        THEN same @@ [out |-> AccountOutput("register", "usage")]
        ELSE IF find_user_by_username(us, username) # 0
        THEN same @@ [out |-> AccountOutput("register", "UsernameTaken")]
        ELSE IF Len(password) < 4
        THEN same @@ [out |-> AccountOutput("register", "PasswordTooShort")]
        ELSE [users |-> Append(us, User(user_id, username, password)),
              portfolios |-> Append(pfs, Portfolio(user_id)),
              out |-> AccountOutput("register", "ok")]

\* lines 158-171: users.json is written at line 160, portfolios.json is read and
\* written at lines 163-166; when that read or write raises, `except Exception`
\* reports the error and returns with users.json already written
register_command_io(us, pfs, username, password, portfolios_ok) ==
    LET r == register_command(us, pfs, username, password)
    IN  IF r.out.status = "ok" /\ ~portfolios_ok
        THEN [users |-> r.users, portfolios |-> pfs,
              out |-> AccountOutput("register", "Error")]
        ELSE r

\* login_command going on after reporting the wrong password
login_command_no_return(us, current, username, password) ==
    LET at == find_user_by_username(us, username)
        same == [current_user |-> current]
    IN  IF username = "" \/ password = <<>>
        THEN same @@ [out |-> AccountOutput("login", "usage")]
        ELSE IF at = 0
        THEN same @@ [out |-> AccountOutput("login", "UserNotFound")]
        ELSE [current_user |-> <<us[at]>>,
              out |-> AccountOutput("login", IF verify_password(us[at], password)
                                             THEN "ok" ELSE "WrongPassword")]

\* login_command(args, state): [current_user, out]
login_command(us, current, username, password) ==
    LET at == find_user_by_username(us, username)
        same == [current_user |-> current]
    IN  IF username = "" \/ password = <<>>
        THEN same @@ [out |-> AccountOutput("login", "usage")]
        ELSE IF at = 0
        THEN same @@ [out |-> AccountOutput("login", "UserNotFound")]
        ELSE IF ~verify_password(us[at], password)
        THEN same @@ [out |-> AccountOutput("login", "WrongPassword")]
        ELSE [current_user |-> <<us[at]>>, out |-> AccountOutput("login", "ok")]

-----------------------------------------------------------------------------
(* interface.py: buy_command, sell_command *)

TradeOutput(cmd, status, currency, amount) ==
    [cmd |-> cmd, status |-> status, currency |-> currency, amount |-> amount,
     old_balance |-> 0, new_balance |-> 0, rate |-> <<>>, estimate |-> <<>>]

\* Estimated showing the course and the estimate whatever the course is
Estimated_any_rate(o, data, currency, amount) ==
    LET rate == rate_or_zero(exchange_rates(data), Key(currency, "USD"))
    IN  [o EXCEPT !.rate = <<rate>>, !.estimate = <<RMul(RInt(amount), rate)>>]

\* lines 329-332, 348-352: the course CODE_USD and the estimate, shown when rate > 0
Estimated(o, data, currency, amount) ==
    LET rate == rate_or_zero(exchange_rates(data), Key(currency, "USD"))
    IN  [o EXCEPT !.rate = IF RPos(rate) THEN <<rate>> ELSE <<>>,
                  !.estimate = IF RPos(rate) THEN <<RMul(RInt(amount), rate)>> ELSE <<>>]

\* buy_trade saving the portfolio as soon as it has got or created the wallet
buy_trade_saves_wallet(file, pfs, user_id, currency, amount) ==
    LET portfolio == get_or_create_wallet(pfs[find_portfolio_by_user_id(pfs, user_id)],
                                          currency)
        w == get_wallet(portfolio, currency)
        created == replace_portfolio(pfs, user_id, portfolio)
        loaded == load_rates(file)
        old_balance == portfolio.wallets[w].balance
        dep == deposit(old_balance, amount)
        saved == [portfolio EXCEPT !.wallets[w].balance = dep.balance]
    IN  IF ~loaded.ok
        THEN [portfolios |-> created,
              out |-> TradeOutput("buy", "RatesUnavailable", currency, amount)]
        ELSE IF dep.error # None
        THEN [portfolios |-> created,
              out |-> TradeOutput("buy", dep.error, currency, amount)]
        ELSE [portfolios |-> replace_portfolio(pfs, user_id, saved),
              out |-> Estimated([TradeOutput("buy", "ok", currency, amount) EXCEPT
                                    !.old_balance = old_balance,
                                    !.new_balance = dep.balance],
                                loaded.data, currency, amount)]

\* lines 317-355: the trade of a logged-in user holding a portfolio
buy_trade(file, pfs, user_id, currency, amount) ==
    LET portfolio == get_or_create_wallet(pfs[find_portfolio_by_user_id(pfs, user_id)],
                                          currency)
        w == get_wallet(portfolio, currency)
        loaded == load_rates(file)
        old_balance == portfolio.wallets[w].balance
        dep == deposit(old_balance, amount)
        saved == [portfolio EXCEPT !.wallets[w].balance = dep.balance]
    IN  IF ~loaded.ok
        THEN [portfolios |-> pfs,
              out |-> TradeOutput("buy", "RatesUnavailable", currency, amount)]
        ELSE IF dep.error # None
        THEN [portfolios |-> pfs, out |-> TradeOutput("buy", dep.error, currency, amount)]
        ELSE [portfolios |-> replace_portfolio(pfs, user_id, saved),
              out |-> Estimated([TradeOutput("buy", "ok", currency, amount) EXCEPT
                                    !.old_balance = old_balance,
                                    !.new_balance = dep.balance],
                                loaded.data, currency, amount)]

\* buy_command(args, state): [portfolios, out]
buy_command(registry, file, pfs, current, rawCurrency, amount_str) ==
    LET c == get_currency(registry, rawCurrency)
        amount == amount_str.value
        fail(status) == [portfolios |-> pfs,
                         out |-> TradeOutput("buy", status, c.code, amount)]
    IN  IF rawCurrency = <<>> \/ ~amount_str.given THEN fail("usage")
        ELSE IF ~c.found THEN fail("CurrencyNotFound")
        ELSE IF ~amount_str.numeric THEN fail("NotANumber")
        ELSE IF current = <<>> THEN fail("NotLoggedIn")
        ELSE IF amount <= 0 THEN fail("InvalidAmount")
        ELSE IF find_portfolio_by_user_id(pfs, current[1].user_id) = 0
        THEN fail("PortfolioNotFound")
        ELSE buy_trade(file, pfs, current[1].user_id, c.code, amount)

\* sell_trade subtracting from the balance itself instead of calling withdraw
sell_trade_unchecked(file, pfs, user_id, currency, amount) ==
    LET portfolio == pfs[find_portfolio_by_user_id(pfs, user_id)]
        w == get_wallet(portfolio, currency)
        loaded == load_rates(file)
        old_balance == portfolio.wallets[w].balance
        saved == [portfolio EXCEPT !.wallets[w].balance = old_balance - amount]
        fail(status) == [portfolios |-> pfs,
                         out |-> TradeOutput("sell", status, currency, amount)]
    IN  IF w = 0 THEN fail("NoWallet")
        ELSE IF ~loaded.ok THEN fail("RatesUnavailable")
        ELSE [portfolios |-> replace_portfolio(pfs, user_id, saved),
              out |-> Estimated([TradeOutput("sell", "ok", currency, amount) EXCEPT
                                    !.old_balance = old_balance,
                                    !.new_balance = old_balance - amount],
                                loaded.data, currency, amount)]

\* sell_trade getting the wallet as buy does and saving the one it created
sell_trade_creates(file, pfs, user_id, currency, amount) ==
    LET found == pfs[find_portfolio_by_user_id(pfs, user_id)]
        portfolio == get_or_create_wallet(found, currency)
        w == get_wallet(portfolio, currency)
        loaded == load_rates(file)
        old_balance == portfolio.wallets[w].balance
        wd == withdraw(old_balance, amount)
        saved == [portfolio EXCEPT !.wallets[w].balance = wd.balance]
        fail(status) == [portfolios |-> replace_portfolio(pfs, user_id, portfolio),
                         out |-> TradeOutput("sell", status, currency, amount)]
    IN  IF get_wallet(found, currency) = 0 THEN fail("NoWallet")
        ELSE IF ~loaded.ok THEN fail("RatesUnavailable")
        ELSE IF wd.error # None THEN fail(wd.error)
        ELSE [portfolios |-> replace_portfolio(pfs, user_id, saved),
              out |-> Estimated([TradeOutput("sell", "ok", currency, amount) EXCEPT
                                    !.old_balance = old_balance,
                                    !.new_balance = wd.balance],
                                loaded.data, currency, amount)]

\* lines 405-451: the trade of a logged-in user holding a portfolio
sell_trade(file, pfs, user_id, currency, amount) ==
    LET portfolio == pfs[find_portfolio_by_user_id(pfs, user_id)]
        w == get_wallet(portfolio, currency)
        loaded == load_rates(file)
        old_balance == portfolio.wallets[w].balance
        wd == withdraw(old_balance, amount)
        saved == [portfolio EXCEPT !.wallets[w].balance = wd.balance]
        fail(status) == [portfolios |-> pfs,
                         out |-> TradeOutput("sell", status, currency, amount)]
    IN  IF w = 0 THEN fail("NoWallet")
        ELSE IF ~loaded.ok THEN fail("RatesUnavailable")
        ELSE IF wd.error # None THEN fail(wd.error)
        ELSE [portfolios |-> replace_portfolio(pfs, user_id, saved),
              out |-> Estimated([TradeOutput("sell", "ok", currency, amount) EXCEPT
                                    !.old_balance = old_balance,
                                    !.new_balance = wd.balance],
                                loaded.data, currency, amount)]

\* sell_command(args, state): [portfolios, out]
sell_command(registry, file, pfs, current, rawCurrency, amount_str) ==
    LET c == get_currency(registry, rawCurrency)
        amount == amount_str.value
        fail(status) == [portfolios |-> pfs,
                         out |-> TradeOutput("sell", status, c.code, amount)]
    IN  IF rawCurrency = <<>> \/ ~amount_str.given THEN fail("usage")
        ELSE IF ~c.found THEN fail("CurrencyNotFound")
        ELSE IF ~amount_str.numeric THEN fail("NotANumber")
        ELSE IF current = <<>> THEN fail("NotLoggedIn")
        ELSE IF amount <= 0 THEN fail("InvalidAmount")
        ELSE IF find_portfolio_by_user_id(pfs, current[1].user_id) = 0
        THEN fail("PortfolioNotFound")
        ELSE sell_trade(file, pfs, current[1].user_id, c.code, amount)

\* the registry after buy_command or sell_command
trade_registry(registry, rawCurrency, amount_str) ==
    IF rawCurrency = <<>> \/ ~amount_str.given THEN registry
    ELSE ensure_registry(registry)

-----------------------------------------------------------------------------
(* interface.py: show_portfolio_command *)

\* lines 233-237: the courses used when rates.json cannot be loaded
FallbackRates ==
    [k \in {"EUR_USD", "BTC_USD", "ETH_USD"} |->
        [rate |-> CASE k = "EUR_USD" -> <<27, 25>>
                    [] k = "BTC_USD" -> <<50000, 1>>
                    [] k = "ETH_USD" -> <<3000, 1>>]]

\* lines 228-237: rates.json, or the fallback courses
rates_or_fallback(file) ==
    LET loaded == load_rates(file)
    IN  IF loaded.ok THEN loaded.data ELSE FallbackRates

\* wallet_row looking up BASE_CODE where it should look up CODE_BASE
wallet_row_swapped(w, base, xr) ==
    LET rate_key == Key(base, w.currency_code)
        row == [currency_code |-> w.currency_code, balance |-> w.balance]
    IN  IF w.currency_code = base
        THEN row @@ [value |-> <<RInt(w.balance)>>]
        ELSE IF rate_key \in DOMAIN xr
        THEN row @@ [value |-> <<RMul(RInt(w.balance), xr[rate_key])>>]
        ELSE row @@ [value |-> <<>>]

\* lines 255-270: the line printed for one wallet; value is <<>> for "not found"
wallet_row(w, base, xr) ==
    LET rate_key == Key(w.currency_code, base)
        row == [currency_code |-> w.currency_code, balance |-> w.balance]
    IN  IF w.currency_code = base
        THEN row @@ [value |-> <<RInt(w.balance)>>]
        ELSE IF rate_key \in DOMAIN xr
        THEN row @@ [value |-> <<RMul(RInt(w.balance), xr[rate_key])>>]
        ELSE row @@ [value |-> <<>>]

\* total_value starting over from 0 at a wallet without a rate
RECURSIVE total_value_resets(_, _)
total_value_resets(rows, n) ==
    IF n = 0 THEN RZero
    ELSE IF rows[n].value # <<>>
    THEN RAdd(total_value_resets(rows, n - 1), rows[n].value[1])
    ELSE RZero

\* lines 246, 260, 268: total_value after the first n wallets
RECURSIVE total_value(_, _)
total_value(rows, n) ==
    IF n = 0 THEN RZero
    ELSE IF rows[n].value # <<>> THEN RAdd(total_value(rows, n - 1), rows[n].value[1])
    ELSE total_value(rows, n - 1)

\* lines 244-273: the report of a portfolio that holds wallets
value_in_base(wallets, base, data) ==
    LET xr == exchange_rates(data)
        rows == [i \in 1..Len(wallets) |-> wallet_row(wallets[i], base, xr)]
    IN  [rows |-> rows, total |-> total_value(rows, Len(rows))]

ShowOutput(status, base) ==
    [cmd |-> "show-portfolio", status |-> status, base |-> base,
     rows |-> <<>>, total |-> RZero]

\* show_portfolio_command(args, state): what it prints
show_portfolio_command(file, pfs, current, base) ==
    IF current = <<>> THEN ShowOutput("NotLoggedIn", base)
    ELSE IF find_portfolio_by_user_id(pfs, current[1].user_id) = 0
    THEN ShowOutput("PortfolioNotFound", base)
    ELSE
    LET portfolio == pfs[find_portfolio_by_user_id(pfs, current[1].user_id)]
        report == value_in_base(portfolio.wallets, base, rates_or_fallback(file))
    IN  IF portfolio.wallets = <<>> THEN ShowOutput("empty", base)
        ELSE [ShowOutput("ok", base) EXCEPT !.rows = report.rows,
                                            !.total = report.total]

-----------------------------------------------------------------------------
(* The valuations: a logged-in user, any portfolio and rates.json of the    *)
(* family (each reachable by register, login, buy and sell), any sequence   *)
(* of show-portfolio                                                        *)

ValCodes == {"USD", "BTC", "EUR"}
ValKeys == {Key(a, b) : a \in ValCodes, b \in ValCodes} \ {Key(a, a) : a \in ValCodes}
Bases == ValCodes

ValFiles ==
    {MissingFile}
    \cup {RateFile(t) : t \in RateTables(ValKeys, MaxValEntries)}
    \cup {RateFile(t @@ MetaEntries) : t \in RateTables(ValKeys, 1)}

\* the wallets of a portfolio: distinct currencies in any order of insertion
WalletLists ==
    UNION {{ws \in [1..n -> {Wallet(c, b) : c \in ValCodes, b \in 0..MaxValBalance}] :
              \A i, j \in 1..n : i # j => ws[i].currency_code # ws[j].currency_code} :
           n \in 0..MaxWallets}

Alice == User(1, "alice", <<"1", "2", "3", "4">>)

InitVal ==
    /\ currency_registry = initialize_currencies(<<>>)
    /\ users = <<Alice>>
    /\ \E ws \in WalletLists : portfolios = <<[user_id |-> 1, wallets |-> ws]>>
    /\ rates \in ValFiles
    /\ current_user = <<Alice>>
    /\ out = NoOutput

ShowPortfolio ==
    \E base \in Bases :
        /\ out' = show_portfolio_command(rates, portfolios, current_user, base)
        /\ UNCHANGED <<currency_registry, users, portfolios, rates, current_user>>

NextVal == ShowPortfolio

SpecVal == InitVal /\ [][NextVal]_vars

\* the courses a valuation reads: rates.json, or the fallback when it is missing
EffectiveData == IF rates.exists THEN rates.data ELSE FallbackRates

\* the last command printed the report of the portfolio of the logged-in user
Valued == out.cmd = "show-portfolio" /\ out.status = "ok"

TheWallets == portfolios[1].wallets

IsTimes(v, balance, rate) == v[1] * rate[2] = v[2] * balance * rate[1]

\* C6 as stated: a wallet of another currency than the base is valued with the
\* rate the resolver of get-rate yields for (wallet currency, base), and is
\* tagged "not found" only when the resolver reports the pair unavailable.
C6_ResolverValuation ==
    Valued =>
        \A i \in 1..Len(out.rows) :
            out.rows[i].currency_code # out.base =>
                LET q == resolve_rate(EffectiveData, out.rows[i].currency_code, out.base)
                IN  /\ q.status = "resolved" =>
                          /\ out.rows[i].value # <<>>
                          /\ IsTimes(out.rows[i].value[1], out.rows[i].balance, q.rate[1])
                    /\ out.rows[i].value = <<>> => q.status = "RateUnavailable"

\* C6 as amended: a wallet of another currency than the base is valued with
\* the entry CODE_BASE of the table alone: balance * rate(CODE_BASE) when that
\* key is present, "not found" when it is absent, also when the reverse entry
\* or a USD bridge would resolve the pair.
C6_DirectValuation ==
    Valued =>
        \A i \in 1..Len(out.rows) :
            out.rows[i].currency_code # out.base =>
                LET key == Key(out.rows[i].currency_code, out.base)
                IN  IF key \in DOMAIN EffectiveData /\ key \notin MetaKeys
                    THEN /\ out.rows[i].value # <<>>
                         /\ IsTimes(out.rows[i].value[1], out.rows[i].balance,
                                    EffectiveData[key].rate)
                    ELSE out.rows[i].value = <<>>

\* a wallet reported "not found" although the resolver of get-rate resolves its pair
C6_Witness ==
    /\ Valued
    /\ \E i \in 1..Len(out.rows) :
          /\ out.rows[i].currency_code # out.base
          /\ out.rows[i].value = <<>>
          /\ resolve_rate(EffectiveData, out.rows[i].currency_code, out.base).status
                = "resolved"
    /\ \E i \in 1..Len(out.rows) :
          /\ out.rows[i].currency_code # out.base
          /\ out.rows[i].value # <<>>
          /\ out.rows[i].value[1] # RZero

\* the sum of the values of the rows that carry one, from the first row on
RECURSIVE SumResolved(_)
SumResolved(rows) ==
    IF rows = <<>> THEN RZero
    ELSE IF Head(rows).value = <<>> THEN SumResolved(Tail(rows))
    ELSE RAdd(Head(rows).value[1], SumResolved(Tail(rows)))

\* C7: the valuation of a portfolio that holds wallets reports every wallet in
\* the order of insertion and never stops at a missing rate: a wallet in the
\* base currency counts its balance, a wallet with a rate counts balance * rate,
\* a wallet without one is reported "not found" and counts 0, and the total is
\* the sum of the values of the wallets that have one.
C7_Valuation ==
    (out.cmd = "show-portfolio" /\ TheWallets # <<>>) =>
        /\ out.status = "ok"
        /\ Len(out.rows) = Len(TheWallets)
        /\ \A i \in 1..Len(TheWallets) :
              /\ out.rows[i].currency_code = TheWallets[i].currency_code
              /\ out.rows[i].balance = TheWallets[i].balance
              /\ TheWallets[i].currency_code = out.base =>
                    out.rows[i].value = <<RInt(TheWallets[i].balance)>>
              /\ (TheWallets[i].currency_code # out.base /\ out.rows[i].value # <<>>) =>
                    /\ Key(TheWallets[i].currency_code, out.base) \in DOMAIN EffectiveData
                    /\ IsTimes(out.rows[i].value[1], TheWallets[i].balance,
                               EffectiveData[Key(TheWallets[i].currency_code, out.base)].rate)
        /\ out.total = SumResolved(out.rows)

\* a wallet "not found" between a wallet in the base currency and a valued one
C7_Witness ==
    /\ Valued /\ Len(out.rows) = 3
    /\ out.rows[1].currency_code = out.base /\ out.rows[1].balance > 0
    /\ out.rows[2].value = <<>> /\ out.rows[2].balance > 0
    /\ out.rows[3].value # <<>> /\ out.rows[3].value[1] # RZero
    /\ out.total = RAdd(RInt(out.rows[1].balance), out.rows[3].value[1])

-----------------------------------------------------------------------------
(* The sessions: from empty files, any sequence of commands *)

GoodPassword == <<"1", "2", "3", "4">>
ShortPassword == <<"1", "2">>

\* --username, --password as typed
RegisterArgs == { <<"alice", GoodPassword>>, <<"bob", GoodPassword>>,
                  <<"bob", ShortPassword>>, <<"", GoodPassword>> }
LoginArgs == { <<"alice", GoodPassword>>, <<"bob", GoodPassword>>,
               <<"alice", ShortPassword>>, <<"bob", <<>> >> }

Amount(v) == [given |-> TRUE, numeric |-> TRUE, value |-> v]
NotNumeric == [given |-> TRUE, numeric |-> FALSE, value |-> 0]
NotGiven == [given |-> FALSE, numeric |-> FALSE, value |-> 0]

\* --currency, --amount as typed
TradeArgs ==
    {<<c, Amount(v)>> : c \in { <<"U", "S", "D">>, <<" ", "b", "t", "c">> },
                        v \in (-1)..MaxAmount}
    \cup { << <<"X", "Y", "Z">>, Amount(1) >>, << <<>>, Amount(1) >>,
           << <<"U", "S", "D">>, NotNumeric >>, << <<"U", "S", "D">>, NotGiven >> }

SessionFiles == {MissingFile, RateFile([k \in {"BTC_USD"} |-> [rate |-> <<3, 1>>,
                                            updated_at |-> "2025-10-09T10:30:00"]])}

RECURSIVE SumBalances(_)
SumBalances(ws) == IF ws = <<>> THEN 0 ELSE Head(ws).balance + SumBalances(Tail(ws))

RECURSIVE Held(_)
Held(pfs) == IF pfs = <<>> THEN 0 ELSE SumBalances(Head(pfs).wallets) + Held(Tail(pfs))

Init ==
    /\ currency_registry = initialize_currencies(<<>>)
    /\ users = NoUsers
    /\ portfolios = NoPortfolios
    /\ rates \in SessionFiles
    /\ current_user = <<>>
    /\ out = NoOutput

Register ==
    \E a \in RegisterArgs :
        LET r == register_command(users, portfolios, a[1], a[2])
        IN  /\ users' = r.users
            /\ portfolios' = r.portfolios
            /\ out' = r.out
            /\ UNCHANGED <<currency_registry, rates, current_user>>

Login ==
    \E a \in LoginArgs :
        LET r == login_command(users, current_user, a[1], a[2])
        IN  /\ current_user' = r.current_user
            /\ out' = r.out
            /\ UNCHANGED <<currency_registry, users, portfolios, rates>>

Buy ==
    \E a \in TradeArgs :
        LET r == buy_command(currency_registry, rates, portfolios, current_user, a[1], a[2])
        IN  /\ Held(r.portfolios) <= MaxHeld
            /\ portfolios' = r.portfolios
            /\ out' = r.out
            /\ currency_registry' = trade_registry(currency_registry, a[1], a[2])
            /\ UNCHANGED <<users, rates, current_user>>

Sell ==
    \E a \in TradeArgs :
        LET r == sell_command(currency_registry, rates, portfolios, current_user, a[1], a[2])
        IN  /\ portfolios' = r.portfolios
            /\ out' = r.out
            /\ currency_registry' = trade_registry(currency_registry, a[1], a[2])
            /\ UNCHANGED <<users, rates, current_user>>

\* show-portfolio without --base: args.get('base', 'USD')
Show ==
    /\ out' = show_portfolio_command(rates, portfolios, current_user, "USD")
    /\ UNCHANGED <<currency_registry, users, portfolios, rates, current_user>>

Next == Register \/ Login \/ Buy \/ Sell \/ Show

Spec == Init /\ [][Next]_vars

-----------------------------------------------------------------------------
(* Wallets in the sessions *)

\* the wallets of currency code in the portfolios of user uid
WalletsOf(pfs, uid, code) ==
    {w \in UNION {{pfs[i].wallets[j] : j \in 1..Len(pfs[i].wallets)} :
                    i \in {k \in 1..Len(pfs) : pfs[k].user_id = uid}} :
        w.currency_code = code}

HasWallet(pfs, uid, code) == WalletsOf(pfs, uid, code) # {}

\* the balance of the wallet, 0 when there is none
BalanceOf(pfs, uid, code) ==
    IF HasWallet(pfs, uid, code) THEN (CHOOSE w \in WalletsOf(pfs, uid, code) : TRUE).balance
    ELSE 0

AllBalances(pfs) ==
    UNION {{pfs[i].wallets[j].balance : j \in 1..Len(pfs[i].wallets)} : i \in 1..Len(pfs)}

TradeCodes == {"USD", "BTC"}

\* the last command was a buy or sell that got as far as checking the amount:
\* its arguments parsed, the currency is in the catalog and a user is logged in
Traded(o, cmds) ==
    /\ o.cmd \in cmds
    /\ o.status \notin {"usage", "CurrencyNotFound", "NotANumber", "NotLoggedIn"}

OthersUnchanged(before, after, uid, code) ==
    /\ Len(after) = Len(before)
    /\ \A i \in 1..Len(before) : after[i].user_id = before[i].user_id
    /\ \A u \in {before[i].user_id : i \in 1..Len(before)}, c \in TradeCodes :
          (u # uid \/ c # code) =>
              /\ HasWallet(after, u, c) <=> HasWallet(before, u, c)
              /\ BalanceOf(after, u, c) = BalanceOf(before, u, c)

\* C10: a successful buy of amount a > 0 of currency C sets the C wallet of
\* the logged-in user to its old balance + a, a successful sell to its old
\* balance - a, and neither changes another wallet of that user or the
\* portfolio of another user.
C10_TradeEffect ==
    [][ /\ (out'.cmd = "buy" /\ out'.status = "ok") =>
              /\ out'.amount > 0
              /\ BalanceOf(portfolios', current_user[1].user_id, out'.currency)
                    = BalanceOf(portfolios, current_user[1].user_id, out'.currency)
                      + out'.amount
              /\ OthersUnchanged(portfolios, portfolios', current_user[1].user_id,
                                 out'.currency)
        /\ (out'.cmd = "sell" /\ out'.status = "ok") =>
              /\ BalanceOf(portfolios', current_user[1].user_id, out'.currency)
                    = BalanceOf(portfolios, current_user[1].user_id, out'.currency)
                      - out'.amount
              /\ OthersUnchanged(portfolios, portfolios', current_user[1].user_id,
                                 out'.currency)
      ]_vars

\* the second user sold from one of two wallets while the first user holds one
C10_Witness ==
    /\ out.cmd = "sell" /\ out.status = "ok" /\ out.new_balance < out.old_balance
    /\ Len(portfolios) = 2
    /\ current_user # <<>> /\ current_user[1].user_id = 2
    /\ Len(portfolios[2].wallets) = 2
    /\ Len(portfolios[1].wallets) >= 1

\* the user ids that own a portfolio
Owners(pfs) == {pfs[i].user_id : i \in 1..Len(pfs)}

\* C11: a wallet appears in portfolios.json only through a successful buy of
\* its currency by the logged-in user, and it appears holding the amount
\* bought: a buy that fails after get-or-create (the rates cannot be loaded)
\* saves no wallet, and sell, register, login and show-portfolio create none.
C11_WalletsAreDeposited ==
    [][ \A u \in Owners(portfolios'), c \in TradeCodes :
            (HasWallet(portfolios', u, c) /\ ~HasWallet(portfolios, u, c)) =>
                /\ out'.cmd = "buy" /\ out'.status = "ok"
                /\ out'.currency = c /\ out'.amount > 0
                /\ current_user # <<>> /\ current_user[1].user_id = u
                /\ BalanceOf(portfolios', u, c) = out'.amount
      ]_vars

\* a buy stopped by the missing rates.json and left no wallet behind
C11_Witness ==
    /\ out.cmd = "buy" /\ out.status = "RatesUnavailable" /\ out.amount > 0
    /\ current_user # <<>>
    /\ ~HasWallet(portfolios, current_user[1].user_id, out.currency)

-----------------------------------------------------------------------------
(* Sessions over a data directory whose portfolios.json may fail to be read
   or written *)

InitStore ==
    /\ currency_registry = initialize_currencies(<<>>)
    /\ users = NoUsers
    /\ portfolios = NoPortfolios
    /\ rates \in SessionFiles \ {MissingFile}
    /\ current_user = <<>>
    /\ out = NoOutput

RegisterStore ==
    \E a \in RegisterArgs, portfolios_ok \in BOOLEAN :
        LET r == register_command_io(users, portfolios, a[1], a[2], portfolios_ok)
        IN  /\ users' = r.users
            /\ portfolios' = r.portfolios
            /\ out' = r.out
            /\ UNCHANGED <<currency_registry, rates, current_user>>

NextStore == RegisterStore \/ Login \/ Buy \/ Sell

SpecStore == InitStore /\ [][NextStore]_vars

\* the portfolios saved for user id uid
PortfoliosOf(pfs, uid) == {j \in 1..Len(pfs) : pfs[j].user_id = uid}

\* C12: every registered user id owns exactly one saved portfolio and every
\* saved portfolio belongs to a registered user, also after a register that
\* failed between saving the user and saving the portfolio.
C12_OnePortfolioPerUser ==
    /\ \A i \in 1..Len(users) :
           Cardinality(PortfoliosOf(portfolios, users[i].user_id)) = 1
    /\ \A j \in 1..Len(portfolios) :
           \E i \in 1..Len(users) : users[i].user_id = portfolios[j].user_id

-----------------------------------------------------------------------------
(* Commands that need the rates, with rates.json missing *)

\* C13: when rates.json is missing or corrupt, show-portfolio, buy and sell
\* do not abort on the rates: none of them ends reporting that the rates
\* could not be loaded.
C13_FallbackEverywhere ==
    (~load_rates(rates).ok /\ out.cmd \in {"show-portfolio", "buy", "sell"}) =>
        out.status # "RatesUnavailable"

-----------------------------------------------------------------------------
(* The registry: any sequence of get_currency, get_all_currencies and
   get_currency_types_count *)

MaxPad == 1

Smalls == <<"a", "b", "c", "d", "e", "f", "g", "h", "i", "j", "k", "l", "m",
            "n", "o", "p", "q", "r", "s", "t", "u", "v", "w", "x", "y", "z">>
Capitals == <<"A", "B", "C", "D", "E", "F", "G", "H", "I", "J", "K", "L", "M",
              "N", "O", "P", "Q", "R", "S", "T", "U", "V", "W", "X", "Y", "Z">>

\* the capital of a small letter, any other character itself
Capital(c) ==
    IF \E k \in 1..26 : Smalls[k] = c
    THEN Capitals[CHOOSE k \in 1..26 : Smalls[k] = c] ELSE c

AllCapital(w) == [i \in 1..Len(w) |-> Capital(w[i])]
FirstCapital(w) == [i \in 1..Len(w) |-> IF i = 1 THEN Capital(w[i]) ELSE w[i]]
Spaces(n) == [i \in 1..n |-> " "]

\* the words typed: the nine codes of the catalog and words that are none
Words == { <<"u", "s", "d">>, <<"e", "u", "r">>, <<"r", "u", "b">>,
           <<"g", "b", "p">>, <<"j", "p", "y">>, <<"b", "t", "c">>,
           <<"e", "t", "h">>, <<"l", "t", "c">>, <<"a", "d", "a">>,
           <<"x", "y", "z">>, <<"u", "s">>, <<"u", "s", "d", "t">>,
           <<"u", " ", "d">>, <<>> }

\* each word in small letters, in capitals and capitalized, padded with spaces
LookupInputs ==
    {Spaces(l) \o v \o Spaces(r) :
        v \in UNION {{w, AllCapital(w), FirstCapital(w)} : w \in Words},
        l \in 0..MaxPad, r \in 0..MaxPad}
    \cup { <<"\t", "e", "u", "r", "\n">> }

\* what a lookup gave: <<currency>>, or <<>> for CurrencyNotFoundError
Looked(r) == IF r.found THEN << r.registry[r.code] >> ELSE <<>>

InitRegistry ==
    /\ currency_registry = initialize_currencies(<<>>)
    /\ users = NoUsers
    /\ portfolios = NoPortfolios
    /\ rates = MissingFile
    /\ current_user = <<>>
    /\ out = NoOutput

\* get_currency(raw), the same lookup again, and the lookup of the code it
\* normalized to
Lookup ==
    \E raw \in LookupInputs :
        LET first == get_currency(currency_registry, raw)
            again == get_currency(first.registry, raw)
            round == get_currency(again.registry, Strip(Upper(raw)))
        IN  /\ out' = [cmd |-> "lookup", raw |-> raw, first |-> Looked(first),
                       again |-> Looked(again), round |-> Looked(round)]
            /\ currency_registry' = round.registry
            /\ UNCHANGED <<users, portfolios, rates, current_user>>

ListAll ==
    LET r == get_all_currencies(currency_registry)
    IN  /\ out' = [cmd |-> "list", listing |-> r.listing]
        /\ currency_registry' = r.registry
        /\ UNCHANGED <<users, portfolios, rates, current_user>>

CountByType ==
    LET r == get_currency_types_count(currency_registry)
    IN  /\ out' = [cmd |-> "count", counts |-> r.counts]
        /\ currency_registry' = r.registry
        /\ UNCHANGED <<users, portfolios, rates, current_user>>

NextRegistry == Lookup \/ ListAll \/ CountByType

SpecRegistry == InitRegistry /\ [][NextRegistry]_vars

CatalogCodes == {"USD", "EUR", "RUB", "GBP", "JPY", "BTC", "ETH", "LTC", "ADA"}

Blank(c) == c \in {" ", "\t", "\n"}

\* raw is code between blanks, letter case apart
Matches(raw, code) ==
    \E i \in 1..(Len(raw) + 1), j \in 0..Len(raw) :
        /\ i <= j + 1
        /\ \A k \in 1..(i - 1) : Blank(raw[k])
        /\ \A k \in (j + 1)..Len(raw) : Blank(raw[k])
        /\ Str(AllCapital(SubSeq(raw, i, j))) = code

OfKind(reg, kind) == {c \in DOMAIN reg : reg[c].kind = kind}

\* C14: a lookup returns the catalog currency whose code is the input trimmed
\* and uppercased, or fails with CurrencyNotFound when no catalog code is;
\* looking the same input up again, or looking up the normalized code, gives
\* the same result; and after any lookups, listings and counts the catalog
\* holds its nine codes, 5 fiat and 4 crypto.
C14_Lookup ==
    /\ DOMAIN currency_registry = CatalogCodes
    /\ \A c \in CatalogCodes : currency_registry[c].code = c
    /\ Cardinality(OfKind(currency_registry, "fiat")) = 5
    /\ Cardinality(OfKind(currency_registry, "crypto")) = 4
    /\ out.cmd = "lookup" =>
        /\ out.first # <<>> =>
            /\ out.first[1].code \in CatalogCodes
            /\ out.first[1] = currency_registry[out.first[1].code]
            /\ Matches(out.raw, out.first[1].code)
        /\ out.first = <<>> => \A c \in CatalogCodes : ~Matches(out.raw, c)
        /\ out.again = out.first
        /\ out.round = out.first
    /\ out.cmd = "list" => out.listing = currency_registry
    /\ out.cmd = "count" => out.counts = [fiat |-> 5, crypto |-> 4]

\* " usd " was looked up and gave the US dollar
C14_Witness ==
    /\ out.cmd = "lookup"
    /\ out.raw = <<" ", "u", "s", "d", " ">>
    /\ out.first # <<>>
    /\ out.first[1].code = "USD" /\ out.first[1].kind = "fiat"

-----------------------------------------------------------------------------
(* Trades of a logged-in user over rates.json files that load, with and
   without a positive course CODE_USD *)

EstKeys == {"BTC_USD", "USD_BTC"}
EstEntries == {[rate |-> r, updated_at |-> "2025-10-09T10:30:00"] :
                 r \in {RZero, <<-1, 1>>, <<3, 1>>}}
EstFiles ==
    {RateFile(t) : t \in UNION {[S -> EstEntries] : S \in SUBSET EstKeys}}
    \cup {RateFile(MetaEntries)}

InitEst ==
    /\ currency_registry = initialize_currencies(<<>>)
    /\ users = <<Alice>>
    /\ portfolios = <<Portfolio(1)>>
    /\ rates \in EstFiles
    /\ current_user = <<Alice>>
    /\ out = NoOutput

NextEst == Buy \/ Sell

SpecEst == InitEst /\ [][NextEst]_vars

\* rates.json loads and holds no positive course code_USD
Unpriced(file, code) ==
    /\ file.exists
    /\ Key(code, "USD") \in DOMAIN file.data => file.data[Key(code, "USD")].rate[1] <= 0

\* the balance code of the logged-in user went from its old value to new, the
\* trade was reported done with these balances and with no course or estimate
Unquoted(code, new) ==
    /\ out'.status = "ok"
    /\ BalanceOf(portfolios', current_user[1].user_id, code) = new
    /\ out'.old_balance = BalanceOf(portfolios, current_user[1].user_id, code)
    /\ out'.new_balance = new
    /\ out'.rate = <<>> /\ out'.estimate = <<>>

\* C15: when rates.json loads and holds no positive course CODE_USD, a buy of a
\* positive amount adds the amount to the balance, and a sell of a positive
\* amount the wallet covers takes it off; both are saved and reported with no
\* course and no cost or revenue figure.
C15_UnpricedTrade ==
    [][ \A code \in TradeCodes :
          (/\ current_user # <<>>
           /\ out'.cmd \in {"buy", "sell"}
           /\ out'.currency = code /\ out'.amount > 0
           /\ Unpriced(rates, code)) =>
             LET uid == current_user[1].user_id
                 old == BalanceOf(portfolios, uid, code)
             IN  /\ out'.cmd = "buy" => Unquoted(code, old + out'.amount)
                 /\ (out'.cmd = "sell" /\ HasWallet(portfolios, uid, code)
                       /\ old >= out'.amount) => Unquoted(code, old - out'.amount)
      ]_vars

\* BTC was bought with BTC_USD at course 0 and reported without a course
C15_Witness ==
    /\ out.cmd = "buy" /\ out.status = "ok" /\ out.currency = "BTC"
    /\ "BTC_USD" \in DOMAIN rates.data /\ rates.data["BTC_USD"].rate = RZero
    /\ out.rate = <<>> /\ out.estimate = <<>>
    /\ BalanceOf(portfolios, 1, "BTC") = out.new_balance
    /\ out.new_balance > 0

-----------------------------------------------------------------------------
(* Commands given while nobody is logged in *)

\* C16: while no user is logged in, a show-portfolio, buy or sell ends without
\* success and leaves users.json, portfolios.json and the session as they are;
\* a register or a failed login leaves the current user as it is; the current
\* user changes only by a successful login, to one of the registered users.
C16_NoSessionNoChange ==
    [][ /\ (current_user = <<>> /\ out'.cmd \in {"show-portfolio", "buy", "sell"}) =>
              /\ users' = users /\ portfolios' = portfolios
              /\ current_user' = <<>>
              /\ out'.status \notin {"ok", "empty"}
        /\ (out'.cmd = "register" \/ (out'.cmd = "login" /\ out'.status # "ok")) =>
              current_user' = current_user
        /\ current_user' # current_user =>
              /\ out'.cmd = "login" /\ out'.status = "ok"
              /\ \E i \in 1..Len(users) : current_user' = <<users[i]>>
      ]_vars

\* a buy refused for want of a login, with a user registered
C16_Witness ==
    /\ out.cmd = "buy" /\ out.status = "NotLoggedIn"
    /\ current_user = <<>>
    /\ Len(users) > 0 /\ Len(portfolios) > 0

====
